---------------------------- MODULE Spec2Model ----------------------------
(***************************************************************************)
(* State-machine model of the request handlers of noteai-backend.          *)
(*                                                                         *)
(* The repository holds several server programs (src/server.js and the     *)
(* programs concatenated in src/unnamed/part_000 .. part_004).  Every      *)
(* handler is one action: it draws the request and the behaviour of the    *)
(* outside world (identity provider, generation provider) from small sets, *)
(* and leaves the request in req and the response it sent in res.          *)
(*                                                                         *)
(* Time is counted in days: jsonwebtoken counts seconds, and the only      *)
(* arithmetic on it is iat + 30d and the comparison now >= exp.            *)
(***************************************************************************)
EXTENDS Integers, Sequences, FiniteSets, TLC

VARIABLES
    env,        \* the deployment: which program runs, and process.env at boot
    now,        \* the clock (days)
    issued,     \* session tokens signed by POST /auth/google/exchange (part_004)
    revoked,    \* history: the credentials presented to POST /auth/logout
    notes,      \* the notes table
    createdBy,  \* history: note id -> the owner its Create request named
    req,        \* the request handled last
    res,        \* the response sent to it
    prev        \* history: the exchange failure answered before the last one

vars == <<env, now, issued, revoked, notes, createdBy, req, res, prev>>

---------------------------------------------------------------------------
(* Bounds *)
MaxTime == 31
MaxIssued == 1
MaxNotes == 2
BigTableSize == 52
BodyLen == 200

(* Program constants *)
ExpiresIn == 30

Subjects == {"u1", "u2"}
EmailOf(sub) == IF sub = "u1" THEN "u1@mail" ELSE IF sub = "u2" THEN "u2@mail" ELSE "-"

---------------------------------------------------------------------------
(* Values every request and response record has; a field a route does not
   use keeps its value from here. *)

NoUser == [sub |-> "-", email |-> "-"]

\* A credential: kind "none" (no value), "garbage" (not a token at all),
\* "jwt" (a session token of part_004: payload + signing key), "idtoken"
\* (a Google ID token: state is what verifyIdToken will find).
NoTok == [kind |-> "none", sub |-> "-", email |-> "-", iat |-> 0, exp |-> 0,
          key |-> "-", aud |-> "-", state |-> "-"]
Garbage == [NoTok EXCEPT !.kind = "garbage"]

JwtShortLived(sub, iat, key) ==
    [NoTok EXCEPT !.kind = "jwt", !.sub = sub, !.email = EmailOf(sub),
                  !.iat = iat, !.exp = iat + ExpiresIn - 1, !.key = key]

Jwt(sub, iat, key) ==
    [NoTok EXCEPT !.kind = "jwt", !.sub = sub, !.email = EmailOf(sub),
                  !.iat = iat, !.exp = iat + ExpiresIn, !.key = key]

IdToken(sub, aud, state) ==
    [NoTok EXCEPT !.kind = "idtoken", !.sub = sub, !.email = EmailOf(sub),
                  !.aud = aud, !.state = state]

\* The Authorization header: absent, another scheme, or "Bearer " + token.
NoHeader == [scheme |-> "none", tok |-> NoTok]
Basic == [scheme |-> "Basic", tok |-> NoTok]
Bearer(tok) == [scheme |-> "Bearer", tok |-> tok]

\* What the identity provider's token endpoint does with a code.
\* body: the error body of a non-2xx answer.
NoOutcome == [kind |-> "none", idToken |-> NoTok, body |-> "-"]

NoReq == [route |-> "-", program |-> "-", at |-> 0, auth |-> NoHeader,
          code |-> "-", userId |-> "-", question |-> "-",
          q |-> <<"<absent>">>,
          outcome |-> NoOutcome, gen |-> "-"]

NoRes == [route |-> "-", program |-> "-", status |-> 0, error |-> "-",
          detail |-> "-", user |-> NoUser, token |-> NoTok, calls |-> 0,
          genCalls |-> 0, queried |-> FALSE, owner |-> "-", rows |-> <<>>,
          context |-> <<>>, sends |-> 0, timer |-> "-"]

NoPrev == [program |-> "-", mode |-> "-", status |-> 0, error |-> "-"]

Reply(route, program, status, error) ==
    [NoRes EXCEPT !.route = route, !.program = program, !.status = status,
                  !.error = error, !.sends = IF status = 0 THEN 0 ELSE 1]

---------------------------------------------------------------------------
(* JavaScript truthiness of a request field: undefined (field absent) and
   the empty string are falsy. *)
Absent == "<absent>"
Empty == ""

\* The text values of the model are sequences of characters; SQL NULL and
\* a field the request does not have are sequences no text equals.
Null == <<"<null>">>
NoText == <<"<absent>">>

TruthyMut(v) == v # Absent

Truthy(v) == v # Absent /\ v # Empty

---------------------------------------------------------------------------
(* Boot *)

\* The programs of the repository: src/server.js, part_000, part_001, the
\* two programs of part_002 (lines 1-101 and 103-175) and the two programs
\* of part_004 (lines 1-229 and 231-457).
Programs ==
    {"server", "part000", "part001", "part002", "notes", "part004", "part004b"}

\* part_000, part_001 and the first program of part_002 exit at boot when
\* the OAuth client id or secret is not set.
BootCheck(e) ==
    e.program \in {"part000", "part001", "part002"}
        => e.clientId /\ e.clientSecret

\* The program and, for each variable of process.env it reads, whether it
\* is set; for SERVER_JWT_SECRET and JWT_SECRET, the value (unset, empty or
\* a secret); entropy is what crypto.randomBytes yields in this process.
Envs ==
    {e \in [program : Programs, clientId : BOOLEAN, clientSecret : BOOLEAN,
            db : BOOLEAN, geminiKey : BOOLEAN,
            serverJwtSecret : {Absent, Empty, "k_proc"},
            jwtSecretVar : {Absent, Empty, "k_env"},
            entropy : {"r1", "r2"}] : BootCheck(e)}

\* The deployment with SERVER_JWT_SECRET configured.
SecretConfigured(e) ==
    e.serverJwtSecret = "k_proc" /\ e.jwtSecretVar = Absent /\ e.entropy = "r1"

Init ==
    /\ env \in Envs
    /\ SecretConfigured(env)
    /\ now = 0
    /\ issued = {}
    /\ revoked = {}
    /\ notes = <<>>
    /\ createdBy = <<>>
    /\ req = NoReq
    /\ res = NoRes
    /\ prev = NoPrev

\* Time passes between requests; req and res show a request only in the
\* state its handler leaves.
Tick ==
    /\ now < MaxTime
    /\ now' = now + 1
    /\ req' = NoReq
    /\ res' = NoRes
    /\ UNCHANGED <<env, issued, revoked, notes, createdBy, prev>>

---------------------------------------------------------------------------
(* The outside world *)

Undefined == "<undefined>"

\* GOOGLE_OAUTH_CLIENT_ID as the process reads it.
ClientId(e) == IF e.clientId THEN "client" ELSE Undefined

\* The ID tokens the identity provider may hand back for a code: for either
\* account, for this client or another one, good or not.
IdTokens ==
    {IdToken(sub, aud, st) : sub \in Subjects, aud \in {"client", "other"},
                             st \in {"valid", "badsig", "expired"}}

\* Two error bodies the provider may send with the same error.
ErrorBodies == {"b1", "b2"}

\* String(e) / err.message of an exception, as sent to the client.
ExceptionText == "<exception message>"

\* What the token endpoint may answer.  It grants tokens only to a client
\* that identifies itself (client id and secret both sent).
ProviderOutcomes(e) ==
    {[kind |-> k, idToken |-> NoTok, body |-> b] :
        k \in {"invalid_grant", "redirect_uri_mismatch", "unauthorized_client",
               "unavailable"},
        b \in ErrorBodies}
    \cup {[NoOutcome EXCEPT !.kind = "network"]}
    \cup (IF e.clientId /\ e.clientSecret
          THEN {[NoOutcome EXCEPT !.kind = "ok_noid"]}
               \cup {[NoOutcome EXCEPT !.kind = "ok", !.idToken = t] :
                        t \in IdTokens}
          ELSE {})

\* The exchange failure mode (spec 4.1) an outcome is.
ModeOf(out) ==
    CASE out.kind = "invalid_grant" -> "InvalidGrant"
      [] out.kind = "redirect_uri_mismatch" -> "RedirectMismatch"
      [] out.kind = "unauthorized_client" -> "UnauthorizedClient"
      [] out.kind \in {"unavailable", "network"} -> "UpstreamUnavailable"
      [] out.kind = "ok" /\ out.idToken.state # "valid" -> "InvalidToken"
      [] out.kind = "ok" /\ out.idToken.aud # "client" -> "InvalidToken"
      [] OTHER -> "-"

\* OAuth2Client.verifyIdToken({idToken, audience}): the payload is returned
\* when signature, issuer and expiry are good and, if an audience is
\* given, the token's audience is that one; it throws otherwise.
VerifyIdToken(tok, audience) ==
    /\ tok.kind = "idtoken"
    /\ tok.state = "valid"
    /\ (audience = Undefined \/ tok.aud = audience)

\* The generation provider's behaviour for one call.
GenOutcomes == {"ok", "non2xx", "unparsable", "network"}

Codes == {Absent, Empty, "c1"}
Questions == {Absent, Empty, "what?"}
UserIds == {Absent} \cup Subjects

---------------------------------------------------------------------------
(* src/unnamed/part_004, first program (lines 1-229): signed sessions *)

\* SERVER_JWT_SECRET || process.env.JWT_SECRET || crypto.randomBytes(32)
Generated == env.entropy

JWT_SECRET ==
    IF Truthy(env.serverJwtSecret) THEN env.serverJwtSecret
    ELSE IF Truthy(env.jwtSecretVar) THEN env.jwtSecretVar
    ELSE Generated

\* if (!process.env.SERVER_JWT_SECRET) console.warn("... using ephemeral
\* secret (not for production)."): whether the boot logged the warning.
BootWarned == ~Truthy(env.serverJwtSecret)

\* jsonwebtoken's verify(token, secret) at time t: "ok" or the message of
\* the error it throws.
JwtVerifyLate(tok, secret, t) ==
    IF tok.kind # "jwt" THEN "jwt malformed"
    ELSE IF tok.key # secret THEN "invalid signature"
    ELSE IF t > tok.exp THEN "jwt expired"
    ELSE "ok"

JwtVerify(tok, secret, t) ==
    IF tok.kind # "jwt" THEN "jwt malformed"
    ELSE IF tok.key # secret THEN "invalid signature"
    ELSE IF t >= tok.exp THEN "jwt expired"
    ELSE "ok"

\* Sessions are issued early enough for the clock to run past the expiry
\* of every one of them.
MaxIssueTime == MaxTime - ExpiresIn

Exchange_part004(code, out) ==
    LET r == [NoReq EXCEPT !.route = "exchange", !.program = "part004",
                           !.at = now, !.code = code,
                           !.outcome = IF Truthy(code) THEN out ELSE NoOutcome]
        tok == Jwt(out.idToken.sub, now, JWT_SECRET)
        fail(status, error) ==
            [Reply("exchange", "part004", status, error) EXCEPT
                !.calls = 1,
                !.detail = IF error = "server_error" THEN ExceptionText ELSE "-"]
    IN  /\ env.program = "part004"
        /\ req' = r
        /\ IF ~Truthy(code)
           THEN /\ res' = Reply("exchange", "part004", 400, "missing_code")
                /\ UNCHANGED issued
           ELSE IF out.kind \notin {"ok", "ok_noid"}
           THEN /\ res' = fail(500, "server_error")
                /\ UNCHANGED issued
           ELSE IF out.kind = "ok_noid"
           THEN /\ res' = fail(400, "no_id_token")
                /\ UNCHANGED issued
           ELSE IF ~VerifyIdToken(out.idToken, ClientId(env))
           THEN /\ res' = fail(500, "server_error")
                /\ UNCHANGED issued
           ELSE /\ now <= MaxIssueTime
                /\ Cardinality(issued \cup {tok}) <= MaxIssued
                /\ issued' = issued \cup {tok}
                /\ res' = [fail(200, "-") EXCEPT
                              !.user = [sub |-> tok.sub, email |-> tok.email],
                              !.token = tok]
        /\ UNCHANGED <<env, now, revoked, notes, createdBy>>

\* The tokens a client can present: those issued, one signed with another
\* key, and text that is no token.
Forged == Jwt("u1", 0, "k_other")

SessionHeaders ==
    {NoHeader, Basic, Bearer(NoTok), Bearer(Garbage), Bearer(Forged)}
    \cup {Bearer(t) : t \in issued}

\* jwt.verify(token, JWT_SECRET) in GET /auth/me.
VerifySessionRevoking(token) ==
    IF token \in revoked THEN "revoked" ELSE JwtVerify(token, JWT_SECRET, now)

VerifySession(token) == JwtVerify(token, JWT_SECRET, now)

AuthMe_part004(h) ==
    LET token == IF h.scheme = "Bearer" THEN h.tok ELSE NoTok
        v == VerifySession(token)
    IN  /\ env.program = "part004"
        /\ req' = [NoReq EXCEPT !.route = "me", !.program = "part004",
                                !.at = now, !.auth = h]
        /\ res' = IF token.kind = "none"
                  THEN Reply("me", "part004", 401, "missing_token")
                  ELSE IF v # "ok"
                  THEN [Reply("me", "part004", 401, "invalid_token")
                            EXCEPT !.detail = v]
                  ELSE [Reply("me", "part004", 200, "-") EXCEPT
                            !.user = [sub |-> token.sub, email |-> token.email]]
        /\ UNCHANGED <<env, now, issued, revoked, notes, createdBy, prev>>

\* The handler ignores the request and keeps no record; revoked only
\* remembers which issued credentials were logged out.
Logout_part004(h) ==
    /\ env.program = "part004"
    /\ req' = [NoReq EXCEPT !.route = "logout", !.program = "part004",
                            !.at = now, !.auth = h]
    /\ res' = Reply("logout", "part004", 200, "-")
    /\ revoked' = IF h.scheme = "Bearer" /\ h.tok \in issued
                  THEN revoked \cup {h.tok} ELSE revoked
    /\ UNCHANGED <<env, now, issued, notes, createdBy, prev>>

\* sa: whether the service account yields an access token.
Ask_part004(h, userId, question, sa, gen) ==
    LET called == Truthy(question) /\ (sa \/ env.geminiKey)
        r == [NoReq EXCEPT !.route = "ask", !.program = "part004", !.at = now,
                           !.auth = h, !.userId = userId,
                           !.question = question,
                           !.gen = IF called THEN gen ELSE "-"]
        sent(status, error) ==
            [Reply("ask", "part004", status, error) EXCEPT !.genCalls = 1]
    IN  /\ env.program = "part004"
        /\ req' = r
        /\ res' = IF ~Truthy(question)
                  THEN Reply("ask", "part004", 400, "missing_question")
                  ELSE IF ~sa /\ ~env.geminiKey
                  THEN Reply("ask", "part004", 500, "missing_gemini_credentials")
                  ELSE IF gen \in {"network", "unparsable"}
                  THEN sent(500, "server_error")
                  ELSE IF gen = "non2xx"
                  THEN sent(500, "gemini_error")
                  ELSE sent(200, "-")
        /\ UNCHANGED <<env, now, issued, revoked, notes, createdBy, prev>>

Init_part004 ==
    /\ Init
    /\ env.program = "part004"
    /\ env.clientId /\ env.clientSecret /\ env.geminiKey /\ ~env.db

\* The program booted with every combination of the two secret variables.
Init_boot ==
    /\ env \in Envs
    /\ env.program = "part004"
    /\ env.clientId /\ env.clientSecret /\ env.geminiKey /\ ~env.db
    /\ now = 0
    /\ issued = {}
    /\ revoked = {}
    /\ notes = <<>>
    /\ createdBy = <<>>
    /\ req = NoReq
    /\ res = NoRes
    /\ prev = NoPrev

\* The provider's answers this program is run against.
SessionOutcomes ==
    {[NoOutcome EXCEPT !.kind = "invalid_grant", !.body = "b1"],
     [NoOutcome EXCEPT !.kind = "ok_noid"],
     [NoOutcome EXCEPT !.kind = "ok",
                       !.idToken = IdToken("u1", "client", "badsig")],
     [NoOutcome EXCEPT !.kind = "ok",
                       !.idToken = IdToken("u1", "other", "valid")]}
    \cup {[NoOutcome EXCEPT !.kind = "ok",
                            !.idToken = IdToken(sub, "client", "valid")] :
            sub \in Subjects}

Next_part004 ==
    \/ Tick
    \/ \E code \in {Absent, "c1"}, out \in SessionOutcomes :
          Exchange_part004(code, out) /\ UNCHANGED prev
    \/ \E h \in SessionHeaders : AuthMe_part004(h)
    \/ \E h \in SessionHeaders : Logout_part004(h)
    \/ \E h \in SessionHeaders, gen \in {"ok", "non2xx"} :
          Ask_part004(h, Absent, "what?", TRUE, gen)

Spec_part004 == Init_part004 /\ [][Next_part004]_vars

Next_boot ==
    \/ \E code \in {Absent, "c1"}, out \in SessionOutcomes :
          Exchange_part004(code, out) /\ UNCHANGED prev
    \/ \E h \in SessionHeaders : AuthMe_part004(h)
    \/ \E h \in SessionHeaders : Logout_part004(h)

Spec_boot == Init_boot /\ [][Next_boot]_vars

---------------------------------------------------------------------------
(* Session credentials (part_004) *)

\* The last request presented a credential that the exchange issued.
PresentsIssued == req.auth.scheme = "Bearer" /\ req.auth.tok \in issued

\* C1: a session credential issued by POST /auth/google/exchange and
\* presented to GET /auth/me at or after its expiry time is answered 401
\* with the expiry failure, and no user is returned.
C1_ExpiredNeverAccepted ==
    (res.route = "me" /\ PresentsIssued /\ req.at >= req.auth.tok.exp)
        => /\ res.status = 401
           /\ res.error = "invalid_token"
           /\ res.detail = "jwt expired"
           /\ res.user = NoUser

\* GET /auth/me has answered an issued credential presented exactly at its
\* expiry time.
C1_Witness ==
    res.route = "me" /\ PresentsIssued /\ req.at = req.auth.tok.exp

\* C2 as claimed: once a credential was presented to POST /auth/logout, no
\* later GET /auth/me or POST /api/ask presenting it is answered with
\* success.
C2_RevokedNeverAccepted ==
    (res.route \in {"me", "ask"} /\ req.auth.scheme = "Bearer"
        /\ req.auth.tok \in revoked)
        => res.status # 200

\* C2 as amended: logout revokes nothing.  A credential presented to
\* POST /auth/logout is afterwards accepted by GET /auth/me, with its own
\* subject, exactly while its expiry time has not been reached, and is
\* answered 401 from then on.
C2_LogoutRevokesNothing ==
    (res.route = "me" /\ req.auth.scheme = "Bearer"
        /\ req.auth.tok \in revoked)
        => IF req.at < req.auth.tok.exp
           THEN res.status = 200 /\ res.user.sub = req.auth.tok.sub
           ELSE res.status = 401 /\ res.user = NoUser

\* GET /auth/me has accepted a credential that was logged out before.
C2_Witness ==
    /\ res.route = "me"
    /\ req.auth.scheme = "Bearer"
    /\ req.auth.tok \in revoked
    /\ res.status = 200

---------------------------------------------------------------------------
(* POST /auth/google/exchange of the other programs *)

\* The HTTP status of the token endpoint's answer.
HttpStatus(out) ==
    CASE out.kind \in {"invalid_grant", "redirect_uri_mismatch"} -> 400
      [] out.kind = "unauthorized_client" -> 401
      [] out.kind = "unavailable" -> 503
      [] OTHER -> 200

ExchangeReq(code, out) ==
    [NoReq EXCEPT !.route = "exchange", !.program = env.program, !.at = now,
                  !.code = code,
                  !.outcome = IF Truthy(code) THEN out ELSE NoOutcome]

\* A response sent after the one call to the token endpoint.
CalledTwice(status, error) ==
    [Reply("exchange", env.program, status, error) EXCEPT !.calls = 2]

Called(status, error) ==
    [Reply("exchange", env.program, status, error) EXCEPT !.calls = 1]

\* history: the classified exchange failure answered last, kept when the
\* next exchange is answered.  The handlers themselves keep nothing.
Remember ==
    prev' = IF res.route = "exchange" /\ ModeOf(req.outcome) # "-"
            THEN [program |-> res.program, mode |-> ModeOf(req.outcome),
                  status |-> res.status, error |-> res.error]
            ELSE prev

\* src/server.js
Exchange_server(code, out) ==
    /\ env.program = "server"
    /\ req' = [ExchangeReq(code, out) EXCEPT
                  !.outcome = IF Truthy(code) /\ env.clientId /\ env.clientSecret
                              THEN out ELSE NoOutcome]
    /\ res' = IF ~Truthy(code)
              THEN Reply("exchange", "server", 400, "Missing code")
              ELSE IF ~env.clientId \/ ~env.clientSecret
              THEN Reply("exchange", "server", 500,
                         "Server misconfigured (oauth client)")
              ELSE IF out.kind = "network"
              THEN Called(500, "Internal error")
              ELSE IF out.kind \notin {"ok", "ok_noid"}
              THEN [Called(502, "Token exchange failed") EXCEPT
                       !.detail = out.body]
              ELSE IF out.kind = "ok_noid"
              THEN Called(502, "No id_token in token response")
              ELSE IF ~VerifyIdToken(out.idToken, ClientId(env))
              THEN [Called(502, "id_token_verify_failed") EXCEPT
                       !.detail = ExceptionText]
              ELSE [Called(200, "-") EXCEPT
                        !.user = [sub |-> out.idToken.sub,
                                  email |-> out.idToken.email],
                        !.token = out.idToken]
    /\ UNCHANGED <<env, now, issued, revoked, notes, createdBy>>

\* src/unnamed/part_000: the provider's status is passed on, and the
\* tokens are not looked at.
Exchange_part000(code, out) ==
    /\ env.program = "part000"
    /\ req' = ExchangeReq(code, out)
    /\ res' = IF ~Truthy(code)
              THEN Reply("exchange", "part000", 400, "missing_code")
              ELSE IF out.kind = "network"
              THEN Called(500, "server_error")
              ELSE IF out.kind \notin {"ok", "ok_noid"}
              THEN [Called(HttpStatus(out), "google_error") EXCEPT
                       !.detail = out.body]
              ELSE Called(200, "-")
    /\ UNCHANGED <<env, now, issued, revoked, notes, createdBy>>

\* src/unnamed/part_001.  e is what oauth.getToken threw: the provider's
\* status and its error, or no response at all (a network error).
mapGoogleExchangeError_part001(e) ==
    IF e.kind = "invalid_grant" /\ HttpStatus(e) = 400
    THEN [status |-> 400, error |-> "invalid_grant", detail |-> e.body]
    ELSE IF e.kind # "network" /\ HttpStatus(e) = 401
    THEN [status |-> 401, error |-> "unauthorized_client", detail |-> e.body]
    ELSE [status |-> 502, error |-> "oauth_exchange_failed",
          detail |-> IF e.kind = "network" THEN ExceptionText ELSE e.body]

Exchange_part001(code, out) ==
    LET mapped == mapGoogleExchangeError_part001(out)
    IN  /\ env.program = "part001"
        /\ req' = ExchangeReq(code, out)
        /\ res' = IF ~Truthy(code)
                  THEN Reply("exchange", "part001", 400, "missing_code")
                  ELSE IF out.kind \notin {"ok", "ok_noid"}
                  THEN [Called(mapped.status, mapped.error) EXCEPT
                           !.detail = mapped.detail]
                  ELSE Called(200, "-")
        /\ UNCHANGED <<env, now, issued, revoked, notes, createdBy>>

\* src/unnamed/part_002, first program
Exchange_part002(code, out) ==
    /\ env.program = "part002"
    /\ req' = ExchangeReq(code, out)
    /\ res' = IF ~Truthy(code)
              THEN Reply("exchange", "part002", 400, "missing_code")
              ELSE IF out.kind = "network"
              THEN Called(500, "server_error")
              ELSE IF out.kind \notin {"ok", "ok_noid"}
              THEN [Called(400, "google_error") EXCEPT !.detail = out.body]
              ELSE Called(200, "-")
    /\ UNCHANGED <<env, now, issued, revoked, notes, createdBy>>

Init_exchange ==
    /\ Init
    /\ env.program \in {"server", "part000", "part001", "part002", "part004"}
    /\ env.geminiKey /\ ~env.db

Next_exchange ==
    \/ \E code \in Codes, out \in ProviderOutcomes(env) :
          Exchange_server(code, out) /\ Remember
    \/ \E code \in Codes, out \in ProviderOutcomes(env) :
          Exchange_part000(code, out) /\ Remember
    \/ \E code \in Codes, out \in ProviderOutcomes(env) :
          Exchange_part001(code, out) /\ Remember
    \/ \E code \in Codes, out \in ProviderOutcomes(env) :
          Exchange_part002(code, out) /\ Remember
    \/ \E code \in Codes, out \in ProviderOutcomes(env) :
          Exchange_part004(code, out) /\ Remember

Spec_exchange == Init_exchange /\ [][Next_exchange]_vars

---------------------------------------------------------------------------
(* src/server.js: the Google ID token is the session credential *)

\* The ID tokens a client presents.
PresentedIdTokens ==
    {IdToken("u1", "client", "valid"), IdToken("u2", "client", "valid"),
     IdToken("u1", "client", "badsig"), IdToken("u1", "client", "expired"),
     IdToken("u1", "other", "valid")}

IdHeaders ==
    {NoHeader, Basic, Bearer(Garbage)} \cup {Bearer(t) : t \in PresentedIdTokens}

\* The inner catch of GET /auth/me: verifyIdToken threw.
VerifyFailed_server_500 == Reply("me", "server", 500, "Internal error")

VerifyFailed_server == Reply("me", "server", 401, "Unauthorized")

AuthMe_server(h) ==
    /\ env.program = "server"
    /\ req' = [NoReq EXCEPT !.route = "me", !.program = "server", !.at = now,
                            !.auth = h]
    /\ res' = IF h.scheme # "Bearer"
              THEN Reply("me", "server", 401, "Missing Authorization")
              ELSE IF ~env.clientId
              THEN Reply("me", "server", 500,
                         "Server misconfigured (oauth client)")
              ELSE IF ~VerifyIdToken(h.tok, ClientId(env))
              THEN VerifyFailed_server
              ELSE [Reply("me", "server", 200, "-") EXCEPT
                        !.user = [sub |-> h.tok.sub, email |-> h.tok.email]]
    /\ UNCHANGED <<env, now, issued, revoked, notes, createdBy, prev>>

Logout_server_Clearing(h) ==
    /\ env.program = "server"
    /\ req' = [NoReq EXCEPT !.route = "logout", !.program = "server",
                            !.at = now, !.auth = h]
    /\ res' = Reply("logout", "server", 200, "-")
    /\ notes' = <<>>
    /\ UNCHANGED <<env, now, issued, revoked, createdBy, prev>>

Logout_server(h) ==
    /\ env.program = "server"
    /\ req' = [NoReq EXCEPT !.route = "logout", !.program = "server",
                            !.at = now, !.auth = h]
    /\ res' = Reply("logout", "server", 200, "-")
    /\ UNCHANGED <<env, now, issued, revoked, notes, createdBy, prev>>

\* The 404 catch-all, reached by every request no route matches; DELETE
\* /api/notes/:id is one, as the program has no notes routes.
DeleteNote_server(h, id) ==
    /\ env.program = "server"
    /\ req' = [NoReq EXCEPT !.route = "notes.delete", !.program = "server",
                            !.at = now, !.auth = h, !.code = id]
    /\ res' = Reply("notes.delete", "server", 404, "Not found")
    /\ UNCHANGED <<env, now, issued, revoked, notes, createdBy, prev>>

\* A question of white space only.
Blank == " "

\* SELECT title, body FROM notes WHERE user_id = $1 ... LIMIT 50
AskLimit_server == 50

Take(seq, n) == SubSeq(seq, 1, IF Len(seq) < n THEN Len(seq) ELSE n)

OwnedBy(userId) == SelectSeq(notes, LAMBDA row : row.user_id = userId)

\* if (pool): the notes are read only when DATABASE_URL configured a pool.
HasPoolAlways(e) == TRUE

HasPool(e) == e.db

RECURSIVE NewestFirst(_)
\* ORDER BY updated_at DESC: the orders the database may return rows in;
\* rows of equal updated_at come in any order.
NewestFirst(rows) ==
    IF rows = <<>> THEN {<<>>}
    ELSE LET n == Len(rows)
             top == {i \in 1..n :
                        \A j \in 1..n : rows[j].updated_at <= rows[i].updated_at}
         IN  UNION {{<<rows[i]>> \o rest :
                        rest \in NewestFirst(SubSeq(rows, 1, i - 1)
                                             \o SubSeq(rows, i + 1, n))} :
                    i \in top}

\* The rows the notes query of POST /api/ask may return.
QueryNotes_server(userId) ==
    {Take(ordered, AskLimit_server) : ordered \in NewestFirst(OwnedBy(userId))}

\* n.title ?? '', n.body ?? ''
OrEmpty(v) == IF v = Null THEN <<>> ELSE v

\* `# ${n.title ?? ''}\n${n.body ?? ''}`
NoteText(n) == <<"#", " ">> \o OrEmpty(n.title) \o <<"\n">> \o OrEmpty(n.body)

\* '\n\n---\n\n'
Separator == <<"\n", "\n", "-", "-", "-", "\n", "\n">>

RECURSIVE Join(_, _)
\* parts.join(sep)
Join(parts, sep) ==
    IF parts = <<>> THEN <<>>
    ELSE IF Len(parts) = 1 THEN parts[1]
    ELSE parts[1] \o sep \o Join(Tail(parts), sep)

\* notes.map(...).join(...)
Joined(rows) == Join([i \in 1..Len(rows) |-> NoteText(rows[i])], Separator)

\* buildContext(notes, 10000) at the call site
ContextBudget == 10000

buildContext_NoCut(rows, limitChars) == Joined(rows)

buildContext(rows, limitChars) ==
    LET joined == Joined(rows)
    IN  IF Len(joined) > limitChars THEN SubSeq(joined, 1, limitChars)
        ELSE joined

\* The catch of the generation call: an AbortError (the timeout aborted
\* the call) is a 504, every other exception a 500.
FetchFailed_server_NoAbort(gen) == [status |-> 500, error |-> "internal"]

FetchFailed_server(gen) ==
    IF gen = "timeout"
    THEN [status |-> 504, error |-> "Gemini timeout"]
    ELSE [status |-> 500, error |-> "internal"]

\* req.user is set by no middleware, so the user id is the body's.
\* dbr: what the notes query does; gen: what the generation call does,
\* "timeout" standing for the abort timer firing first.
Ask_server(h, userId, question, dbr, gen) ==
    LET asked == Truthy(question) /\ question # Blank
        known == asked /\ Truthy(userId)
        read == known /\ HasPool(env)
        called == known /\ (read => dbr = "ok") /\ env.geminiKey
        sent(status, error, rows) ==
            [Reply("ask", "server", status, error) EXCEPT
                !.queried = read, !.owner = IF read THEN userId ELSE "-",
                !.genCalls = IF called THEN 1 ELSE 0,
                !.rows = IF called THEN rows ELSE <<>>,
                !.context = IF called
                            THEN buildContext(rows, ContextBudget) ELSE <<>>]
    IN  /\ env.program = "server"
        /\ req' = [NoReq EXCEPT !.route = "ask", !.program = "server",
                                !.at = now, !.auth = h, !.userId = userId,
                                !.question = question,
                                !.outcome = [NoOutcome EXCEPT
                                    !.kind = IF read THEN dbr ELSE "none"],
                                !.gen = IF called THEN gen ELSE "-"]
        /\ \E rows \in (IF called /\ read THEN QueryNotes_server(userId)
                         ELSE {<<>>}) :
              res' = IF ~asked THEN sent(400, "Missing question", rows)
                     ELSE IF ~Truthy(userId) THEN sent(401, "No user", rows)
                     ELSE IF read /\ dbr # "ok"
                     THEN sent(500, "Internal error", rows)
                     ELSE IF ~env.geminiKey
                     THEN sent(500, "Server misconfigured (no GEMINI_API_KEY)",
                               rows)
                     ELSE IF gen \in {"timeout", "network"}
                     THEN sent(FetchFailed_server(gen).status,
                               FetchFailed_server(gen).error, rows)
                     ELSE IF gen = "non2xx"
                     THEN sent(502, "Gemini upstream error", rows)
                     ELSE IF gen = "unparsable"
                     THEN sent(502, "Invalid Gemini response", rows)
                     ELSE sent(200, "-", rows)
        /\ UNCHANGED <<env, now, issued, revoked, notes, createdBy, prev>>

\* The notes table of src/server.js is filled by other programs: the
\* handler meets it empty, with a few notes of two owners (two of them
\* updated at the same time, some with NULL title or body), or with more
\* notes of one owner than the query returns, too long for the budget.
NoteRow(id, userId, title, body, stamp) ==
    [id |-> id, user_id |-> userId, title |-> title, body |-> body,
     updated_at |-> stamp]

SmallTable ==
    <<NoteRow(1, "u1", <<"A">>, <<"b">>, 2), NoteRow(2, "u2", <<"c">>, Null, 3),
      NoteRow(3, "u1", Null, <<"d">>, 2), NoteRow(4, "u1", <<"e">>, <<>>, 1)>>

BigTable ==
    [i \in 1..BigTableSize |->
        NoteRow(i, "u1", <<"t">>, [k \in 1..BodyLen |-> "x"], i)]

ServerTables == {<<>>, SmallTable, BigTable}

Init_context ==
    /\ env \in Envs
    /\ SecretConfigured(env)
    /\ env.program = "server"
    /\ env.clientId /\ env.clientSecret
    /\ notes \in ServerTables
    /\ now = 0
    /\ issued = {}
    /\ revoked = {}
    /\ createdBy = <<>>
    /\ req = NoReq
    /\ res = NoRes
    /\ prev = NoPrev

Next_context ==
    \E u \in UserIds, qn \in {Absent, "what?"}, dbr \in {"ok", "error"},
       gen \in GenOutcomes \cup {"timeout"} :
       Ask_server(NoHeader, u, qn, dbr, gen)

Spec_context == Init_context /\ [][Next_context]_vars

\* The routes of src/server.js.
Init_server ==
    /\ Init
    /\ env.program = "server"

Next_server ==
    \/ \E code \in Codes, out \in ProviderOutcomes(env) :
          Exchange_server(code, out) /\ UNCHANGED prev
    \/ \E h \in IdHeaders : AuthMe_server(h)
    \/ \E h \in IdHeaders : Logout_server(h)
    \/ \E u \in UserIds, qn \in Questions \cup {Blank},
          dbr \in {"ok", "error"}, gen \in GenOutcomes \cup {"timeout"} :
          Ask_server(NoHeader, u, qn, dbr, gen)
    \/ \E h \in {NoHeader}, id \in {"1", "9"} : DeleteNote_server(h, id)

Spec_server == Init_server /\ [][Next_server]_vars

\* The auth routes and POST /api/ask of src/server.js and of the first
\* program of part_004, requests arriving in any order, over a notes table
\* that other programs filled.
Init_frame ==
    /\ env \in Envs
    /\ SecretConfigured(env)
    /\ env.program \in {"server", "part004"}
    /\ env.clientSecret = env.clientId
    /\ notes \in {<<>>, SmallTable}
    /\ now = 0
    /\ issued = {}
    /\ revoked = {}
    /\ createdBy = <<>>
    /\ req = NoReq
    /\ res = NoRes
    /\ prev = NoPrev

Next_frame ==
    \/ \E code \in {Absent, "c1"},
          out \in SessionOutcomes \cap ProviderOutcomes(env) :
          Exchange_server(code, out) /\ UNCHANGED prev
    \/ \E h \in IdHeaders : AuthMe_server(h)
    \/ \E h \in IdHeaders : Logout_server(h)
    \/ \E u \in UserIds, qn \in {Absent, "what?"}, dbr \in {"ok", "error"},
          gen \in {"ok", "network", "timeout"} :
          Ask_server(NoHeader, u, qn, dbr, gen)
    \/ \E code \in {Absent, "c1"},
          out \in SessionOutcomes \cap ProviderOutcomes(env) :
          Exchange_part004(code, out) /\ UNCHANGED prev
    \/ \E h \in SessionHeaders : AuthMe_part004(h)
    \/ \E h \in SessionHeaders : Logout_part004(h)
    \/ \E h \in {NoHeader}, qn \in {Absent, "what?"}, sa \in BOOLEAN,
          gen \in {"ok", "network"} :
          Ask_part004(h, Absent, qn, sa, gen)

Spec_frame == Init_frame /\ [][Next_frame]_vars

\* src/unnamed/part_000: getUserFromIdToken returns the payload, or null
\* when verifyIdToken throws.
getUserFromIdToken(idToken) == VerifyIdToken(idToken, ClientId(env))

Ask_part000(h, userId, question) ==
    LET idToken == IF h.scheme = "Bearer" THEN h.tok ELSE NoTok
        user == idToken.kind # "none" /\ getUserFromIdToken(idToken)
    IN  /\ env.program = "part000"
        /\ req' = [NoReq EXCEPT !.route = "ask", !.program = "part000",
                                !.at = now, !.auth = h, !.userId = userId,
                                !.question = question]
        /\ res' = IF ~user THEN Reply("ask", "part000", 401, "No user")
                  ELSE [Reply("ask", "part000", 200, "-") EXCEPT
                            !.user = [sub |-> idToken.sub,
                                      email |-> idToken.email]]
        /\ UNCHANGED <<env, now, issued, revoked, notes, createdBy, prev>>

\* POST /api/ask of the three programs.
Init_ask ==
    /\ Init
    /\ env.program \in {"server", "part000", "part004"}
    /\ env.clientSecret = env.clientId

AskHeaders ==
    {NoHeader, Basic, Bearer(IdToken("u1", "client", "valid")),
     Bearer(IdToken("u1", "client", "badsig"))}

Next_ask ==
    \/ \E h \in AskHeaders, u \in UserIds, qn \in Questions \cup {Blank},
          dbr \in {"ok", "error"},
          gen \in GenOutcomes \cup {"timeout"} :
          Ask_server(h, u, qn, dbr, gen)
    \/ \E h \in IdHeaders \cup {Bearer(NoTok)}, u \in UserIds,
          qn \in Questions :
          Ask_part000(h, u, qn)
    \/ \E h \in {NoHeader, Bearer(Forged)}, u \in UserIds, qn \in Questions,
          sa \in BOOLEAN, gen \in GenOutcomes :
          Ask_part004(h, u, qn, sa, gen)

Spec_ask == Init_ask /\ [][Next_ask]_vars

\* GET /auth/me of the two programs that have it, with the sessions of
\* part_004 issued, the clock running and the logout of server.js.
Init_me ==
    /\ Init
    /\ env.program \in {"server", "part004"}
    /\ env.geminiKey /\ ~env.db
    /\ env.clientSecret = env.clientId

Next_me ==
    \/ Tick
    \/ \E code \in {Absent, "c1"},
          out \in SessionOutcomes \cap ProviderOutcomes(env) :
          Exchange_part004(code, out) /\ UNCHANGED prev
    \/ \E h \in SessionHeaders : AuthMe_part004(h)
    \/ \E h \in IdHeaders : AuthMe_server(h)
    \/ \E h \in IdHeaders : Logout_server(h)

Spec_me == Init_me /\ [][Next_me]_vars

---------------------------------------------------------------------------
(* POST /api/ask of src/server.js and of the second program of part_004,
   one await at a time.  Between the steps the request is pending: res has
   status 0 and names in detail what the handler awaits. *)

AskPrograms == {"server", "part004b"}

Awaiting(program, what) ==
    [Reply("ask", program, 0, "<pending>") EXCEPT !.detail = what]

Pending == res.route = "ask" /\ res.error = "<pending>"

\* What follows the notes read: the key check, then the generation call.
AfterNotes(read) ==
    IF ~env.geminiKey
    THEN [Reply("ask", env.program, 500,
                "Server misconfigured (no GEMINI_API_KEY)")
             EXCEPT !.queried = read, !.owner = IF read THEN req.userId ELSE "-"]
    ELSE [Awaiting(env.program, "fetch") EXCEPT
             !.queried = read, !.owner = IF read THEN req.userId ELSE "-",
             !.genCalls = 1,
             !.timer = IF env.program = "server" THEN "armed" ELSE "-"]

\* The handler up to its first await.
AskReceive(h, userId, question) ==
    LET asked == Truthy(question) /\ question # Blank
        r == [NoReq EXCEPT !.route = "ask", !.program = env.program,
                           !.at = now, !.auth = h, !.userId = userId,
                           !.question = question]
    IN  /\ env.program \in AskPrograms
        /\ ~Pending
        /\ req' = r
        /\ res' = IF ~asked
                  THEN Reply("ask", env.program, 400, "Missing question")
                  ELSE IF ~Truthy(userId)
                  THEN Reply("ask", env.program, 401, "No user")
                  ELSE IF env.db
                  THEN Awaiting(env.program, "pool.query")
                  ELSE AfterNotes(FALSE)
        /\ UNCHANGED <<env, now, issued, revoked, notes, createdBy, prev>>

\* await pool.query(...) settles.
PoolAnswers(dbr) ==
    /\ Pending /\ res.detail = "pool.query"
    /\ req' = [req EXCEPT !.outcome = [NoOutcome EXCEPT !.kind = dbr]]
    /\ res' = IF dbr # "ok"
              THEN [Reply("ask", env.program, 500, "Internal error") EXCEPT
                       !.queried = TRUE, !.owner = req.userId]
              ELSE AfterNotes(TRUE)
    /\ UNCHANGED <<env, now, issued, revoked, notes, createdBy, prev>>

\* res.status(...).json(...) of a pending request.
Send(r, status, error) ==
    [r EXCEPT !.status = status, !.error = error, !.detail = "-",
              !.sends = r.sends + 1]

\* finally { clearTimeout(to) } of src/server.js: a timer that has not
\* fired is disarmed; the second program of part_004 has no timer.
Finally_server_Missing(r) == r

Finally_server(r) ==
    [r EXCEPT !.timer = IF r.timer = "armed" THEN "cleared" ELSE r.timer]

\* The catch that answers a rejected fetch or upstream.text().
Thrown(gen) ==
    IF env.program = "server"
    THEN Finally_server(Send(res, FetchFailed_server(gen).status,
                                  FetchFailed_server(gen).error))
    ELSE Send(res, 500, "Internal error")

\* await fetch(url, ...) settles before any timeout: it rejects, or the
\* handler goes on to read the body.
FetchAnswers(gen) ==
    /\ Pending /\ res.detail = "fetch"
    /\ req' = [req EXCEPT !.gen = gen]
    /\ res' = IF gen = "network"
              THEN Thrown(gen)
              ELSE [res EXCEPT !.detail = "upstream.text"]
    /\ UNCHANGED <<env, now, issued, revoked, notes, createdBy, prev>>

\* await upstream.text() settles before any timeout: the body is read and
\* the handler answers from it, or the read rejects.
TextAnswers(read) ==
    LET answered ==
            IF req.gen = "non2xx" THEN Send(res, 502, "Gemini upstream error")
            ELSE IF req.gen = "unparsable"
            THEN Send(res, 502, "Invalid Gemini response")
            ELSE Send(res, 200, "-")
    IN  /\ Pending /\ res.detail = "upstream.text"
        /\ req' = IF read THEN req ELSE [req EXCEPT !.gen = "network"]
        /\ res' = IF ~read THEN Thrown("network")
                  ELSE IF env.program = "server" THEN Finally_server(answered)
                  ELSE answered
        /\ UNCHANGED <<env, now, issued, revoked, notes, createdBy, prev>>

\* The callback of setTimeout(() => controller.abort(), timeoutMs) runs:
\* an armed timer fires whatever the handler is doing.  A pending fetch or
\* body read of src/server.js rejects with AbortError; after the handler
\* has answered the abort finds nothing to reject.  The second program of
\* part_004 passes no signal to fetch and sets no timer.
AbortFires ==
    /\ env.program = "server"
    /\ res.route = "ask" /\ res.timer = "armed"
    /\ IF Pending
       THEN /\ req' = [req EXCEPT !.gen = "timeout"]
            /\ res' = Finally_server(
                          Send([res EXCEPT !.timer = "fired"],
                               FetchFailed_server("timeout").status,
                               FetchFailed_server("timeout").error))
       ELSE /\ req' = req
            /\ res' = [res EXCEPT !.timer = "fired late"]
    /\ UNCHANGED <<env, now, issued, revoked, notes, createdBy, prev>>

Init_askSteps ==
    /\ Init
    /\ env.program \in AskPrograms
    /\ env.clientSecret = env.clientId

Next_askSteps ==
    \/ \E h \in AskHeaders, u \in UserIds, qn \in Questions \cup {Blank} :
          AskReceive(h, u, qn)
    \/ \E dbr \in {"ok", "error"} : PoolAnswers(dbr)
    \/ \E gen \in GenOutcomes : FetchAnswers(gen)
    \/ \E read \in BOOLEAN : TextAnswers(read)
    \/ AbortFires

\* The timer of a pending fetch fires; nothing makes the database or the
\* generation provider answer.
Spec_askSteps ==
    Init_askSteps /\ [][Next_askSteps]_vars /\ WF_vars(AbortFires)

---------------------------------------------------------------------------
(* src/unnamed/part_002, second program (lines 103-175): the notes table *)

\* title ?? null, body ?? null: an absent field is stored as NULL.
OrNull(v) == IF v = NoText THEN Null ELSE v

\* q || null: an absent or empty filter is no filter.
FilterOf(q) == IF q = NoText \/ q = <<>> THEN Null ELSE q

Lower(c) == IF c = "A" THEN "a" ELSE IF c = "B" THEN "b" ELSE c

RECURSIVE Like(_, _)
\* s LIKE p, case folded (ILIKE): % matches any run of characters, _ any
\* one character.
Like(s, p) ==
    IF p = <<>> THEN s = <<>>
    ELSE IF Head(p) = "%"
    THEN Like(s, Tail(p)) \/ (s # <<>> /\ Like(Tail(s), p))
    ELSE /\ s # <<>>
         /\ (Head(p) = "_" \/ Lower(Head(s)) = Lower(Head(p)))
         /\ Like(Tail(s), Tail(p))

\* text ILIKE '%'||q||'%'; NULL on a NULL text, which selects nothing.
Contains(text, q) == text # Null /\ Like(text, <<"%">> \o q \o <<"%">>)

\* The WHERE clause of GET /api/notes; f is $2.
WhereListLoose(row, userId, f) ==
    \/ row.user_id = userId /\ f = Null
    \/ Contains(row.title, f)
    \/ Contains(row.body, f)

WhereList(row, userId, f) ==
    /\ row.user_id = userId
    /\ (f = Null \/ Contains(row.title, f) \/ Contains(row.body, f))

\* ORDER BY created_at DESC: the orders the database may return the rows
\* of seq in; rows of equal created_at come in any order.
Orderings(seq) ==
    LET n == Len(seq)
        perms == {f \in [1..n -> 1..n] : \A i, j \in 1..n : i # j => f[i] # f[j]}
    IN  {[i \in 1..n |-> seq[f[i]]] :
            f \in {g \in perms : \A i, j \in 1..n :
                        i < j => seq[g[i]].created_at >= seq[g[j]].created_at}}

ListLimit == 100
AskLimit_notes == 5

\* created_at of the row inserted last.
LastStamp == IF notes = <<>> THEN 0 ELSE notes[Len(notes)].created_at

NotesReq(route, h, userId) ==
    [NoReq EXCEPT !.route = route, !.program = "notes", !.at = now,
                  !.auth = h, !.userId = userId]

Answered(route, userId, rows) ==
    [Reply(route, "notes", 200, "-") EXCEPT
        !.queried = TRUE, !.owner = userId, !.rows = rows]

\* POST /api/notes.  d: whether the database clock has moved since the
\* last insert.
CreateNote(h, userId, title, body, d) ==
    LET row == [id |-> Len(notes) + 1, user_id |-> userId,
                title |-> OrNull(title), body |-> OrNull(body),
                created_at |-> LastStamp + d]
    IN  /\ env.program = "notes"
        /\ req' = NotesReq("notes.create", h, userId)
        /\ IF ~Truthy(userId)
           THEN /\ res' = Reply("notes.create", "notes", 400, "userId required")
                /\ UNCHANGED <<notes, createdBy>>
           ELSE /\ Len(notes) < MaxNotes
                /\ notes' = Append(notes, row)
                /\ createdBy' = Append(createdBy, userId)
                /\ res' = Answered("notes.create", userId, <<row>>)
        /\ UNCHANGED <<env, now, issued, revoked, prev>>

\* GET /api/notes
ListNotes(h, userId, q) ==
    LET f == FilterOf(q)
        found == SelectSeq(notes, LAMBDA row : WhereList(row, userId, f))
    IN  /\ env.program = "notes"
        /\ req' = [NotesReq("notes.list", h, userId) EXCEPT !.q = q]
        /\ IF ~Truthy(userId)
           THEN res' = Reply("notes.list", "notes", 400, "userId required")
           ELSE \E rows \in Orderings(found) :
                    res' = Answered("notes.list", userId, Take(rows, ListLimit))
        /\ UNCHANGED <<env, now, issued, revoked, notes, createdBy, prev>>

\* POST /api/ask.  Nothing catches a failure of the generation call: the
\* handler then sends no response (status 0).
Ask_notes(h, userId, question, gen) ==
    LET ok == Truthy(userId) /\ Truthy(question)
        found == SelectSeq(notes, LAMBDA row : row.user_id = userId)
    IN  /\ env.program = "notes"
        /\ req' = [NotesReq("ask", h, userId) EXCEPT
                      !.question = question,
                      !.gen = IF ok THEN gen ELSE "-"]
        /\ IF ~ok
           THEN res' = Reply("ask", "notes", 400, "userId & question required")
           ELSE \E rows \in Orderings(found) :
                    res' = [Answered("ask", userId, Take(rows, AskLimit_notes))
                              EXCEPT !.genCalls = 1,
                                     !.status = IF gen \in {"ok", "non2xx"}
                                                THEN 200 ELSE 0,
                                     !.error = IF gen \in {"ok", "non2xx"}
                                               THEN "-" ELSE "<unhandled rejection>"]
        /\ UNCHANGED <<env, now, issued, revoked, notes, createdBy, prev>>

\* DELETE /api/notes/:id.  The program registers no such route (its routes
\* are GET /health, POST and GET /api/notes, POST /api/ask), so Express
\* answers with its default 404 and the table is not touched.
DeleteNote(h, id) ==
    /\ env.program = "notes"
    /\ req' = [NotesReq("notes.delete", h, Absent) EXCEPT !.code = id]
    /\ res' = Reply("notes.delete", "notes", 404, "Cannot DELETE")
    /\ UNCHANGED <<env, now, issued, revoked, notes, createdBy, prev>>

Init_notes ==
    /\ Init
    /\ env.program = "notes"
    /\ env.db /\ env.geminiKey /\ ~env.clientId /\ ~env.clientSecret

\* Title and body of the notes created, and the filters listed with.
NoteTexts == {<<NoText, NoText>>, <<<<"A">>, <<"b">>>>}
Filters == {NoText, <<>>, <<"a">>, <<"%">>}
NotesHeaders == {NoHeader, Bearer(IdToken("u1", "client", "valid"))}

Next_notes ==
    \/ \E h \in NotesHeaders, u \in UserIds, t \in NoteTexts, d \in {0, 1} :
          CreateNote(h, u, t[1], t[2], d)
    \/ \E h \in NotesHeaders, u \in UserIds, q \in Filters :
          ListNotes(h, u, q)
    \/ \E u \in UserIds, qn \in {Absent, "what?"}, gen \in {"ok", "network"} :
          Ask_notes(NoHeader, u, qn, gen)
    \/ \E id \in {"1", "9"} : DeleteNote(NoHeader, id)

Spec_notes == Init_notes /\ [][Next_notes]_vars

---------------------------------------------------------------------------
(* The credential exchange *)

\* The last request was an exchange whose credential value was absent or
\* empty.
NoCredential == res.route = "exchange" /\ req.code \in {Absent, Empty}

\* C7 as claimed: a success response of POST /auth/google/exchange is sent
\* only for an ID token that verifies with the configured client id as
\* audience.
C7_SuccessOnlyVerified ==
    (res.route = "exchange" /\ res.status = 200)
        => /\ req.outcome.kind = "ok"
           /\ env.clientId
           /\ req.outcome.idToken.state = "valid"
           /\ req.outcome.idToken.aud = ClientId(env)

\* C8 as claimed: two exchange failures of different modes are answered
\* with different statuses, and two of the same mode with the same status.
C8_DistinctStableStatus ==
    (res.route = "exchange" /\ ModeOf(req.outcome) # "-"
        /\ prev.program = res.program)
        => (prev.mode = ModeOf(req.outcome) <=> prev.status = res.status)

\* C9 as claimed: when the provider rejects the code with invalid_grant,
\* the exchange answers 400 with error invalid_grant.
C9_InvalidGrantIs400 ==
    (res.route = "exchange" /\ req.outcome.kind = "invalid_grant")
        => res.status = 400 /\ res.error = "invalid_grant"

\* C10: an exchange request whose credential value is absent or empty is
\* answered 400 with the missing-code error, and the identity provider is
\* not called for it.
C10_MissingCredential ==
    NoCredential
        => /\ res.status = 400
           /\ res.error \in {"missing_code", "Missing code"}
           /\ res.calls = 0
           /\ req.outcome = NoOutcome
           /\ res.token = NoTok

\* An exchange with an empty credential value has been answered.
C10_Witness ==
    res.route = "exchange" /\ req.code = Empty /\ res.status = 400

---------------------------------------------------------------------------
(* Session validation *)

\* C5 as claimed: a POST /api/ask request without an Authorization header
\* is answered 401 "No user", whatever its body holds.
C5_NoHeaderIs401 ==
    (res.route = "ask" /\ req.auth = NoHeader)
        => res.status = 401 /\ res.error = "No user"

\* The credential the last request presented is one its program accepts
\* now: a good ID token of this client (server.js), or a session token
\* signed by this process and not expired (part_004).
ValidCredential ==
    /\ req.auth.scheme = "Bearer"
    /\ IF req.program = "server"
       THEN /\ req.auth.tok.kind = "idtoken"
            /\ req.auth.tok.state = "valid"
            /\ req.auth.tok.aud = "client"
       ELSE /\ req.auth.tok.kind = "jwt"
            /\ req.auth.tok.key = JWT_SECRET
            /\ req.at < req.auth.tok.exp

\* C6 as claimed: GET /auth/me answers 401 to every request whose
\* credential is missing, malformed, invalid or expired, in every
\* configuration.
C6_Always401 ==
    (res.route = "me" /\ ~ValidCredential) => res.status = 401

\* C6 as amended: such a request is answered 401, except that server.js
\* with no OAuth client id configured answers 500 to every request that
\* carries a Bearer value; a request without one is answered 401 in every
\* configuration.
C6_401UnlessMisconfigured ==
    (res.route = "me" /\ ~ValidCredential)
        => /\ res.user = NoUser
           /\ IF req.program = "server" /\ ~env.clientId
                 /\ req.auth.scheme = "Bearer"
              THEN res.status = 500
              ELSE res.status = 401

\* server.js with its client id configured has refused a bad ID token.
C6_Witness ==
    /\ res.route = "me"
    /\ req.program = "server"
    /\ env.clientId
    /\ req.auth.scheme = "Bearer"
    /\ req.auth.tok.state # "valid"
    /\ res.status = 401

---------------------------------------------------------------------------
(* Notes *)

\* C3: the notes a List for an owner returns were all created with that
\* owner, whatever the filter.
C3_ListIsolation ==
    res.route = "notes.list"
        => \A i \in 1..Len(res.rows) :
              /\ createdBy[res.rows[i].id] = req.userId
              /\ res.rows[i].user_id = req.userId

\* A List with a filter has returned a note of its owner while the table
\* holds a note of another owner that the filter matches too.
C3_Witness ==
    /\ res.route = "notes.list"
    /\ FilterOf(req.q) # Null
    /\ Len(res.rows) > 0
    /\ \E j \in 1..Len(notes) :
          /\ notes[j].user_id # req.userId
          /\ Contains(notes[j].title, req.q)

\* The subject of the credential a request presents, when that credential
\* verifies; "-" when none does.
ValidatedSubject(h) ==
    IF h.scheme = "Bearer" /\ VerifyIdToken(h.tok, "client")
    THEN h.tok.sub ELSE "-"

\* C4 as claimed: the owner id of every notes query is the subject of the
\* validated credential of its request.
C4_OwnerFromCredential ==
    res.queried => res.owner = ValidatedSubject(req.auth)

---------------------------------------------------------------------------
(* Failure handling *)

\* The statuses the propagation policy allows for a failed request.
ErrorStatuses == {400, 401, 404, 502, 504, 500}

\* The database or an outbound provider call failed during the last
\* request.
UpstreamFailed ==
    \/ req.gen \in {"non2xx", "unparsable", "network", "timeout"}
    \/ req.outcome.kind \in {"invalid_grant", "redirect_uri_mismatch",
                             "unauthorized_client", "unavailable", "network",
                             "error"}

\* C11 as claimed: a request during which the database or a provider call
\* failed is answered with exactly one response, whose status is one of
\* 400, 401, 404, 502, 504 and 500.
C11_FailureAnswered ==
    (res.route # "-" /\ UpstreamFailed) => res.status \in ErrorStatuses

\* C12: POST /api/ask answers 504 when the request timeout aborted the
\* generation call, and in that case only: no timeout gets another status
\* and no other outcome gets 504.
C12_TimeoutIs504 ==
    res.route = "ask" => (req.gen = "timeout" <=> res.status = 504)

\* The timeout has fired during the generation call of an ask.
C12_Witness ==
    res.route = "ask" /\ req.gen = "timeout" /\ res.status = 504

\* C14 as claimed: a failure of the generation call other than a timeout
\* (a non-2xx answer, an unparsable body, a network error) is answered 502.
C14_UpstreamIs502 ==
    (res.route = "ask" /\ req.gen \in {"non2xx", "unparsable", "network"})
        => res.status = 502

\* C13 as claimed: every POST /api/ask request that passed validation and
\* awaits the database or the generation provider eventually has its
\* response.
C13_AskAnswered == Pending ~> ~Pending

---------------------------------------------------------------------------
(* What a response tells about a provider's error *)

\* C15 as claimed: when the identity provider answers an exchange with an
\* error, the response carries the classified error only: neither the
\* provider's error body nor an exception message is in it, so two
\* requests that differ in the error body alone are answered alike.
C15_NoProviderBody ==
    (res.route = "exchange" /\ req.outcome.body \in ErrorBodies)
        => res.detail = "-"

---------------------------------------------------------------------------
(* Notes: recency *)

\* C16 as claimed: a List without filter that directly follows a Create
\* for the same owner has the created note as its first element.
C16_CreatedIsFirst ==
    [][(/\ res.route = "notes.create" /\ res.status = 200
        /\ res'.route = "notes.list" /\ res'.status = 200
        /\ req'.userId = req.userId
        /\ FilterOf(req'.q) = Null)
          => /\ Len(res'.rows) > 0
             /\ res'.rows[1].id = res.rows[1].id]_vars

\* C17 as claimed: DELETE /api/notes/:id answers success, for an id that
\* exists, for one deleted before and for one that never existed.
C17_DeleteSucceeds ==
    res.route = "notes.delete" => res.status = 200

---------------------------------------------------------------------------
(* The notes context of POST /api/ask (src/server.js) *)

\* The generation call of the last ask of src/server.js was made.
AskCalled == res.route = "ask" /\ res.program = "server" /\ res.genCalls = 1

\* The notes of the requesting user in the table.
Owned == OwnedBy(req.userId)

\* C18: the context of the prompt is built from at most 50 notes, all of
\* the requesting user, no older than any note of that user left out and
\* most recent first; it is a prefix of their concatenation, no longer than
\* the budget, and the whole concatenation when that fits the budget.
C18_ContextWithinBudget ==
    AskCalled =>
        LET rows == res.rows
            full == Joined(rows)
            ids == {rows[i].id : i \in 1..Len(rows)}
        IN  /\ Len(rows) <= AskLimit_server
            /\ Len(rows) = IF ~env.db THEN 0
                           ELSE IF Len(Owned) < AskLimit_server THEN Len(Owned)
                           ELSE AskLimit_server
            /\ Cardinality(ids) = Len(rows)
            /\ \A i \in 1..Len(rows) :
                  /\ rows[i].user_id = req.userId
                  /\ \E k \in 1..Len(notes) : notes[k] = rows[i]
            /\ \A i, j \in 1..Len(rows) :
                  i < j => rows[i].updated_at >= rows[j].updated_at
            /\ env.db => \A k \in 1..Len(Owned) :
                  Owned[k].id \notin ids
                      => \A i \in 1..Len(rows) :
                            rows[i].updated_at >= Owned[k].updated_at
            /\ Len(res.context) <= ContextBudget
            /\ Len(res.context) <= Len(full)
            /\ \A i \in 1..Len(res.context) : res.context[i] = full[i]
            /\ Len(full) <= ContextBudget => res.context = full
            /\ Len(full) > ContextBudget => Len(res.context) = ContextBudget

\* The user has more notes than the query returns, and the concatenation
\* of those returned is longer than the budget.
C18_Witness ==
    /\ AskCalled
    /\ Len(Owned) > AskLimit_server
    /\ Len(res.rows) = AskLimit_server
    /\ Len(Joined(res.rows)) > ContextBudget

\* The last ask passed validation.
AskValid ==
    /\ res.route = "ask" /\ res.program = "server"
    /\ Truthy(req.question) /\ req.question # Blank
    /\ Truthy(req.userId)

\* C19: an ask of a user without notes, or on a server without database,
\* makes the generation call with an empty context (the key being
\* configured), and its answer depends on that call alone.
C19_EmptyContextProceeds ==
    (/\ AskValid /\ env.geminiKey
     /\ \/ ~env.db
        \/ req.outcome.kind = "ok" /\ Owned = <<>>)
        => /\ res.genCalls = 1
           /\ res.context = <<>>
           /\ res.rows = <<>>
           /\ (req.gen = "ok" <=> res.status = 200)

\* A user without notes, on a server whose table holds notes of another
\* user, has been answered.
C19_Witness ==
    /\ AskValid /\ env.db /\ notes # <<>> /\ Owned = <<>>
    /\ res.status = 200 /\ res.genCalls = 1

---------------------------------------------------------------------------
(* Outbound calls (src/server.js) *)

\* C20: an exchange calls the token endpoint at most once and an ask calls
\* the generation provider at most once; when the call fails, it was made
\* once and the response of the same request is an error.
C20_NoRetries ==
    /\ res.route = "exchange"
          => /\ res.calls <= 1
             /\ req.outcome.kind \in {"invalid_grant", "redirect_uri_mismatch",
                                      "unauthorized_client", "unavailable",
                                      "network"}
                   => res.calls = 1 /\ res.status \in {500, 502}
    /\ res.route = "ask"
          => /\ res.genCalls <= 1
             /\ req.gen \in {"non2xx", "unparsable", "network", "timeout"}
                   => res.genCalls = 1 /\ res.status \in {500, 502, 504}

\* The token endpoint has refused a code and the exchange has answered.
C20_Witness ==
    /\ res.route = "exchange"
    /\ req.outcome.kind = "invalid_grant"
    /\ res.calls = 1
    /\ res.status = 502

---------------------------------------------------------------------------
(* The signing secret (part_004) *)

\* C21 as claimed: the boot logs the warning that sessions will not
\* survive a restart exactly when the secret in use is the generated one.
C21_WarnedIffGenerated ==
    BootWarned <=> JWT_SECRET = Generated

\* C23: a session token returned by a successful exchange carries the
\* subject id and email of the identity that exchange returned, and GET
\* /auth/me of the same process accepts it at every time before 30 days
\* have passed since it was issued, returning that subject id and email.
C23_IssuedAccepted ==
    /\ (res.route = "exchange" /\ res.status = 200)
          => /\ res.token \in issued
             /\ res.user.sub = req.outcome.idToken.sub
             /\ res.token.sub = res.user.sub
             /\ res.token.email = res.user.email
    /\ (res.route = "me" /\ PresentsIssued
            /\ req.at < req.auth.tok.iat + ExpiresIn)
          => /\ res.status = 200
             /\ res.user.sub = req.auth.tok.sub
             /\ res.user.email = req.auth.tok.email

\* GET /auth/me has accepted an issued token on the last day before its
\* expiry.
C23_Witness ==
    /\ res.route = "me" /\ PresentsIssued
    /\ req.at = req.auth.tok.iat + ExpiresIn - 1
    /\ res.status = 200

---------------------------------------------------------------------------
(* What the handlers leave alone *)

C24_OneResponseTimerDisarmed ==
    (res.route = "ask" /\ res.program = "server") =>
        /\ Pending => res.sends = 0
        /\ ~Pending => res.sends = 1
        /\ res.timer = "armed"
              => Pending /\ res.detail \in {"fetch", "upstream.text"}
        /\ res.timer # "fired late"

\* The timer fired while the outbound call was pending and the request was
\* answered 504.
C24_Witness ==
    /\ res.route = "ask" /\ res.program = "server"
    /\ res.status = 504 /\ res.timer = "fired" /\ res.sends = 1

=============================================================================
